---- MODULE Spec2Model ----
(***************************************************************************)
(* The background loader of datalens: run_with_loader (loader_runner.py),  *)
(* LoaderWorker (loader_worker.py), LoaderContext (loader_context.py) and  *)
(* the part of LoaderDialog (loader_dialog.py) the worker's signals drive. *)
(*                                                                         *)
(* Threads are the owning thread ("main", which calls run_with_loader and  *)
(* runs the Qt event loop) and one QThread per LoaderWorker.  A signal     *)
(* emission runs the slots connected to it in connection order; each       *)
(* connection is an AutoConnection: a slot whose receiver lives in the     *)
(* emitting thread is called at once, any other is posted to the event     *)
(* queue of the receiver's thread.                                         *)
(***************************************************************************)
EXTENDS Naturals, Sequences, FiniteSets, TLC

\* Two run_with_loader calls, named after the spec's scenario C.
Inv == {"A", "B"}

\* The most ctx.log / ctx.set_progress calls one task body makes.
MaxCalls == 2

\* Payloads a task passes to ctx.log and ctx.set_progress (text of a float).
Messages == {"step1", "step2"}
Fractions == {"0.5", "1.5"}
\* Values a task returns and errors it raises.  ValueError derives from
\* Exception; KeyboardInterrupt derives from BaseException only (as do
\* SystemExit and asyncio.CancelledError).
Results == {"42", "7"}
Errors == {"ValueError", "KeyboardInterrupt"}

\* The most LoaderWorker.start() calls made on one worker, and the most calls
\* made on a LoaderContext kept after its task body ended.
MaxStarts == 2
MaxLate == 1

\* Calls made on a LoaderContext built without a worker.
MaxDirectCalls == 3

\* Calls and clicks made on a Toggle.
MaxToggleCalls == 3

MainThread == "main"
NoThread == "none"
\* A thread of the caller's that is neither the owning thread nor a QThread of
\* a worker: where a context kept by the task body is used later.
LateThread == "late"
\* The QThread that LoaderWorker.start() creates for invocation i.
ExecThread(i) == i

NoOutcome == [kind |-> "none", val |-> ""]

VARIABLES
    rwl,            \* run_with_loader(i): "notcalled","built","starting","returned"
    callbacks,      \* [on_result, on_error]: which callbacks the caller gave
    affinity,       \* the thread the LoaderWorker object lives in
    threads,        \* QThreads started for the worker
    exec,           \* the QThread: "none","spawned","run_task","loop","finished"
    runningOn,      \* the thread inside _run_task's task body, or NoThread
    bodyRuns,       \* the threads on which self._task(ctx) was invoked, in order
    ctxOf,          \* the LoaderContext the body was last given
    calls,          \* the ctx.log / ctx.set_progress calls the body made
    outcome,        \* how the body ended: return val, raise val, or NoOutcome
    escaped,        \* an exception left _run_task uncaught
    emitted,        \* the signals the worker emitted, in order
    mainQ,          \* the owning thread's queue of posted slot calls
    ui,             \* dialog, callback and teardown state on the owning side
    workerDeleted,  \* the worker's deferred delete has run
    starts,         \* calls of LoaderWorker.start()
    later,          \* the QThreads started by later start() calls, in order
    pendingRuns,    \* _run_task calls posted to the worker's thread, not yet run
    runsBehind,     \* those of them posted behind the worker's deferred delete
    lateCalls,      \* calls on the context made after the body ended
    raised,         \* exceptions raised to callers of start / log / set_progress
    crashed,        \* the process was aborted
    ctx,            \* a LoaderContext built by a caller of its own
    ctxCalls,       \* the log / set_progress calls made on it, in order
    ctxSent,        \* what its sinks were called with, in order
    ctxRaised,      \* the exceptions its calls raised
    toggle          \* a Toggle widget: checked button, signals emitted, calls

core == <<rwl, callbacks, affinity, threads, exec, runningOn, bodyRuns, ctxOf, calls,
          outcome, escaped, emitted, mainQ, ui, workerDeleted>>
misuse == <<starts, later, pendingRuns, runsBehind, lateCalls, raised, crashed>>
standalone == <<ctx, ctxCalls, ctxSent, ctxRaised, toggle>>
vars == <<core, misuse, standalone>>

----------------------------------------------------------------------------
\* Python: `except Exception` catches exactly the classes derived from Exception.
IsException(e) == e \in {"ValueError"}

\* A LoaderDialog before construction.
NoDialog ==
    [dialog |-> "none", spinner |-> FALSE, progressVisible |-> FALSE,
     delivered |-> <<>>, onResult |-> <<>>, onError |-> <<>>,
     slotRaised |-> <<>>,
     deleteLater |-> 0, quit |-> 0, quitLater |-> <<>>, threadsDeleted |-> {}]

\* No callback given.  raises: the callback that is given raises when called.
NoCallbacks == [on_result |-> FALSE, on_error |-> FALSE, raises |-> FALSE]

\* The ids of the two ToggleOptions, and an id that is neither.
LeftId == "global"
RightId == "project"
UnknownId == "other"

\* No Toggle built yet.  checked: the id of the checked button; emitted: the
\* selectionChanged signals emitted; calls: the set_current_id calls made,
\* each with what was emitted during it; raised: the errors they raised.
NoToggle == [built |-> FALSE, checked |-> "none", emitted |-> <<>>,
             calls |-> <<>>, raised |-> <<>>]

\* No LoaderContext given to a body yet.  owner: the worker whose signals
\* the context's sinks emit; run: which call of _run_task built it.
NoCtx == [owner |-> "none", run |-> 0]

\* No LoaderContext built yet; send_progress is "None" or "callable".
NoContext == [built |-> FALSE, send_progress |-> "None"]

\* LoaderDialog.__init__: spinner started, progress bar hidden, not yet shown.
NewDialog == [NoDialog EXCEPT !.dialog = "hidden", !.spinner = TRUE]

Init ==
    /\ rwl = [i \in Inv |-> "notcalled"]
    /\ callbacks = [i \in Inv |-> NoCallbacks]
    /\ affinity = [i \in Inv |-> MainThread]
    /\ threads = [i \in Inv |-> 0]
    /\ exec = [i \in Inv |-> "none"]
    /\ runningOn = [i \in Inv |-> NoThread]
    /\ bodyRuns = [i \in Inv |-> <<>>]
    /\ ctxOf = [i \in Inv |-> NoCtx]
    /\ calls = [i \in Inv |-> <<>>]
    /\ outcome = [i \in Inv |-> NoOutcome]
    /\ escaped = [i \in Inv |-> FALSE]
    /\ emitted = [i \in Inv |-> <<>>]
    /\ mainQ = <<>>
    /\ ui = [i \in Inv |-> NoDialog]
    /\ workerDeleted = [i \in Inv |-> FALSE]
    /\ starts = [i \in Inv |-> 0]
    /\ later = [i \in Inv |-> <<>>]
    /\ pendingRuns = [i \in Inv |-> 0]
    /\ runsBehind = [i \in Inv |-> 0]
    /\ lateCalls = [i \in Inv |-> <<>>]
    /\ raised = [i \in Inv |-> <<>>]
    /\ crashed = FALSE
    /\ ctx = NoContext
    /\ ctxCalls = <<>>
    /\ ctxSent = <<>>
    /\ ctxRaised = <<>>
    /\ toggle = NoToggle

----------------------------------------------------------------------------
(* Signals and slots *)

\* Faulty variant of Connections: finished is wired to the failure handler as well.
ConnectionsCrossWired(sig) ==
    CASE sig = "message"  -> <<"append_message">>
      [] sig = "progress" -> <<"set_progress">>
      [] sig = "finished" -> <<"_handle_result", "_handle_error", "quit">>
      [] sig = "failed"   -> <<"_handle_error", "quit">>

\* The slots connected to each LoaderWorker signal, in connection order:
\* run_with_loader connects the dialog and the handlers, then start()
\* connects thread.quit.
Connections(sig) ==
    CASE sig = "message"  -> <<"append_message">>
      [] sig = "progress" -> <<"set_progress">>
      [] sig = "finished" -> <<"_handle_result", "quit">>
      [] sig = "failed"   -> <<"_handle_error", "quit">>

\* The slots that are closures of run_with_loader, not methods of a QObject.
HandlerSlots == {"_handle_result", "_handle_error"}

\* The thread of the receiver through which a closure is called.  The
\* program names no receiver for it: the binding makes one when connect() is
\* called, which run_with_loader does on the owning thread, and the program
\* never moves it.  That it lives where it was made is Qt's rule for a new
\* QObject; that the binding makes such an object is outside the program.
ClosureThread == MainThread

\* The thread each slot's receiver lives in.  The dialog is built by
\* run_with_loader and the QThread object by start(), both on the owning
\* thread, and neither is moved.
SlotThread(slot) == IF slot \in HandlerSlots THEN ClosureThread ELSE MainThread

\* Qt::AutoConnection, decided at emission.
ConnectionType(receiverThread, emitterThread) ==
    IF receiverThread = emitterThread THEN "direct" ELSE "queued"

Event(kind, val, th) == [kind |-> kind, val |-> val, thread |-> th]

\* LoaderDialog.append_message
AppendMessage(u, text, th) ==
    [u EXCEPT !.delivered = Append(@, Event("message", text, th))]

\* LoaderDialog.set_progress
DialogSetProgress(u, value, th) ==
    [u EXCEPT !.progressVisible = TRUE,
              !.delivered = Append(@, Event("progress", value, th))]

\* Faulty variant of CloseDialog: closing the dialog also hides its progress
\* bar.
CloseDialogHidesBar(u) ==
    [u EXCEPT !.dialog = "closed", !.spinner = FALSE, !.progressVisible = FALSE]

\* LoaderDialog.closeEvent, reached through dialog.close()
CloseDialog(u) == [u EXCEPT !.dialog = "closed", !.spinner = FALSE]

\* What a terminal callback is called with, and what it finds: the state of
\* the dialog and its spinner, and the number of worker.deleteLater() calls
\* made so far.
CallbackCall(u, val, th) ==
    [val |-> val, thread |-> th, dialog |-> u.dialog, spinner |-> u.spinner,
     released |-> u.deleteLater]

\* Faulty variant of TerminalHandler: the callback is called first, and the
\* dialog closed once it has returned.
TerminalHandlerCallbackFirst(u, given, field, val, th, raises, gone) ==
    IF u.dialog = "destroyed"
    THEN [u EXCEPT !.slotRaised = Append(@, "RuntimeError")]
    ELSE LET called == IF given
                       THEN [u EXCEPT ![field] = Append(@, CallbackCall(u, val, th))]
                       ELSE u
         IN  IF given /\ raises
             THEN [called EXCEPT !.slotRaised = Append(@, "CallbackError")]
             ELSE [CloseDialog(called) EXCEPT !.deleteLater = @ + 1]

\* Faulty variant of TerminalHandler: worker.deleteLater() is called first,
\* before the callback.
TerminalHandlerReleaseFirst(u, given, field, val, th, raises, gone) ==
    IF u.dialog = "destroyed"
    THEN [u EXCEPT !.slotRaised = Append(@, "RuntimeError")]
    ELSE LET closed == CloseDialog(u)
             released == [closed EXCEPT !.deleteLater = @ + 1]
             called == IF given
                       THEN [released EXCEPT ![field] = Append(@, CallbackCall(released, val, th))]
                       ELSE released
         IN  IF given /\ raises
             THEN [called EXCEPT !.slotRaised = Append(@, "CallbackError")]
             ELSE called

\* The statements of a terminal handler, on the dialog state u: dialog.close()
\* raises RuntimeError when the dialog's C++ object is gone, then the callback
\* is called when one was given, then worker.deleteLater(), which raises
\* RuntimeError when the worker's C++ object is gone.  An exception leaves the
\* handler at once; the binding reports it on the owning thread.
TerminalHandler(u, given, field, val, th, raises, gone) ==
    IF u.dialog = "destroyed"
    THEN [u EXCEPT !.slotRaised = Append(@, "RuntimeError")]
    ELSE LET closed == CloseDialog(u)
             called == IF given
                       THEN [closed EXCEPT ![field] = Append(@, CallbackCall(closed, val, th))]
                       ELSE closed
         IN  IF given /\ raises
             THEN [called EXCEPT !.slotRaised = Append(@, "CallbackError")]
             ELSE IF gone
             THEN [called EXCEPT !.slotRaised = Append(@, "RuntimeError")]
             ELSE [called EXCEPT !.deleteLater = @ + 1]

\* run_with_loader._handle_result
HandleResult(u, result, th, cb, gone) ==
    TerminalHandler([u EXCEPT !.delivered = Append(@, Event("finished", result, th))],
                    cb.on_result, "onResult", result, th, cb.raises, gone)

\* Faulty variant of HandleError: on_error is given a new error built from the text
\* of the one raised.
HandleErrorWrapped(u, exc, th, cb, gone) ==
    TerminalHandler([u EXCEPT !.delivered = Append(@, Event("failed", exc, th))],
                    cb.on_error, "onError", "Exception", th, cb.raises, gone)

\* run_with_loader._handle_error
HandleError(u, exc, th, cb, gone) ==
    TerminalHandler([u EXCEPT !.delivered = Append(@, Event("failed", exc, th))],
                    cb.on_error, "onError", exc, th, cb.raises, gone)

\* QThread.quit, connected to finished and failed in start()
ThreadQuit(u) == [u EXCEPT !.quit = @ + 1]

\* The name of a slot of one of the worker's QThreads.  Thread 0 is the one
\* the first start() made, thread n the one made by the n-th later call:
\* "quit" is the quit of the first QThread, "quit2" that of the second.
ThreadSlot(base, n) == IF n = 0 THEN base ELSE base \o ToString(n + 1)

\* The quit slot of the n-th later QThread.
QuitSlot(n) == ThreadSlot("quit", n)

\* thread.deleteLater, connected to the thread's own finished signal, and the
\* deferred delete event that the call posts to the owning thread.
DeleteLaterSlot(n) == ThreadSlot("deleteLater", n)
DeferredDelete(n) == ThreadSlot("deferred_delete", n)

\* The quit slots of the later QThreads: each start() call connects the quit
\* of its own QThread to finished and failed, after those already connected.
\* Qt drops the connection when the QThread object is destroyed.
LaterQuits(u) ==
    LET live == SelectSeq([n \in DOMAIN u.quitLater |-> n],
                          LAMBDA n : n \notin u.threadsDeleted)
    IN  [k \in DOMAIN live |-> QuitSlot(live[k])]

\* QThread.quit of a later QThread, named by its slot.
ThreadQuitLater(u, slot) ==
    LET n == CHOOSE k \in DOMAIN u.quitLater : QuitSlot(k) = slot
    IN  [u EXCEPT !.quitLater[n] = @ + 1]

\* A slot called with arg on thread th; gone: the worker's C++ object has
\* been deleted.
RunSlot(u, slot, arg, th, cb, gone) ==
    CASE slot = "append_message" -> AppendMessage(u, arg, th)
      [] slot = "set_progress"   -> DialogSetProgress(u, arg, th)
      [] slot = "_handle_result" -> HandleResult(u, arg, th, cb, gone)
      [] slot = "_handle_error"  -> HandleError(u, arg, th, cb, gone)
      [] slot = "quit"           -> ThreadQuit(u)
      [] slot \in {QuitSlot(n) : n \in DOMAIN u.quitLater} -> ThreadQuitLater(u, slot)

\* Faulty variant of Post: the call is put at the front of the queue.
PostFront(q, call) == <<call>> \o q

\* Posting a slot call to the owning thread's event queue.
Post(q, call) == Append(q, call)

\* Faulty variant of Deliver: the slots are not closures over the call's own
\* dialog and worker but reach those of the first call.
RECURSIVE DeliverShared(_, _, _, _, _, _)
DeliverShared(s, i, slots, arg, cur, cb) ==
    IF slots = <<>> THEN s
    ELSE LET slot == Head(slots)
             next == IF ConnectionType(SlotThread(slot), cur) = "direct"
                     THEN [s EXCEPT !.u = RunSlot(@, slot, arg, cur, cb, workerDeleted["A"])]
                     ELSE [s EXCEPT !.q = Post(@, [inv |-> "A", slot |-> slot, arg |-> arg])]
         IN  DeliverShared(next, i, Tail(slots), arg, cur, cb)

\* One emission of signal sig(arg) of worker i from thread cur, on the state
\* s = [q: the main queue, u: ui[i], e: emitted[i]].
RECURSIVE Deliver(_, _, _, _, _, _)
Deliver(s, i, slots, arg, cur, cb) ==
    IF slots = <<>> THEN s
    ELSE LET slot == Head(slots)
             next == IF ConnectionType(SlotThread(slot), cur) = "direct"
                     THEN [s EXCEPT !.u = RunSlot(@, slot, arg, cur, cb, workerDeleted[i])]
                     ELSE [s EXCEPT !.q = Post(@, [inv |-> i, slot |-> slot, arg |-> arg])]
         IN  Deliver(next, i, Tail(slots), arg, cur, cb)

\* The slots that are methods of the LoaderDialog.
DialogSlots == {"append_message", "set_progress"}

\* The connections still in place: Qt drops those whose receiver, the dialog
\* or the first QThread, has been destroyed.
LiveSlots(u, slots) ==
    SelectSeq(slots, LAMBDA slot :
        /\ ~(slot \in DialogSlots /\ u.dialog = "destroyed")
        /\ ~(slot = "quit" /\ 0 \in u.threadsDeleted))

\* The slots connected to signal sig now, in connection order: those of
\* run_with_loader and the first start(), then, on the terminal signals, the
\* quit of each later QThread.
Connected(u, sig) ==
    LiveSlots(u, Connections(sig))
        \o (IF sig \in {"finished", "failed"} THEN LaterQuits(u) ELSE <<>>)

Emit(s, i, sig, arg, cur, cb) ==
    Deliver([s EXCEPT !.e = Append(@, [kind |-> sig, val |-> arg])],
            i, Connected(s.u, sig), arg, cur, cb)

RECURSIVE EmitAll(_, _, _, _, _)
EmitAll(s, i, sigs, cur, cb) ==
    IF sigs = <<>> THEN s
    ELSE EmitAll(Emit(s, i, Head(sigs).kind, Head(sigs).val, cur, cb),
                 i, Tail(sigs), cur, cb)

Here(i) == [q |-> mainQ, u |-> ui[i], e |-> emitted[i]]

Store(s, i) ==
    /\ mainQ' = s.q
    /\ ui' = [ui EXCEPT ![i] = s.u]
    /\ emitted' = [emitted EXCEPT ![i] = s.e]

----------------------------------------------------------------------------
(* LoaderContext *)

\* Faulty variant of ContextLog: the text is forwarded, and forwarded again.
ContextLogTwice(text) ==
    <<[kind |-> "message", val |-> text], [kind |-> "message", val |-> text]>>

\* LoaderContext.log: forwards to send_message, which emits worker.message.
ContextLog(text) == <<[kind |-> "message", val |-> text]>>

\* Faulty variant of ContextSetProgress: a value above 1 is clamped to 1.
ContextSetProgressClamped(value, hasSink) ==
    IF hasSink
    THEN <<[kind |-> "progress", val |-> IF value = "1.5" THEN "1.0" ELSE value]>>
    ELSE <<>>

\* Faulty variant of ContextSetProgress: send_progress is called without the
\* None check, and calling None raises TypeError.
ContextSetProgressUnguarded(value, hasSink) ==
    IF hasSink THEN <<[kind |-> "progress", val |-> value]>>
    ELSE <<[kind |-> "raise", val |-> "TypeError"]>>

\* LoaderContext.set_progress: forwards to send_progress when one was given;
\* _run_task always gives one, which emits worker.progress.
ContextSetProgress(value, hasSink) ==
    IF hasSink THEN <<[kind |-> "progress", val |-> value]>> ELSE <<>>

\* LoaderContext(send_message, send_progress): send_progress is optional.
LoaderContextInit(hasSink) ==
    /\ ~ctx.built
    /\ ctx' = [built |-> TRUE,
               send_progress |-> IF hasSink THEN "callable" ELSE "None"]
    /\ UNCHANGED <<ctxCalls, ctxSent, ctxRaised, toggle, core, misuse>>

\* A call on the caller's own context, whose sinks record what they are
\* called with: out is what the call does, in order.
DirectCall(call, out) ==
    /\ ctx.built
    /\ Len(ctxCalls) < MaxDirectCalls
    /\ ctxCalls' = Append(ctxCalls, call)
    /\ ctxSent' = ctxSent \o SelectSeq(out, LAMBDA e : e.kind # "raise")
    /\ ctxRaised' = ctxRaised \o SelectSeq(out, LAMBDA e : e.kind = "raise")
    /\ UNCHANGED <<ctx, toggle, core, misuse>>

DirectLog(text) ==
    DirectCall([kind |-> "message", val |-> text], ContextLog(text))

DirectSetProgress(value) ==
    DirectCall([kind |-> "progress", val |-> value],
               ContextSetProgress(value, ctx.send_progress # "None"))

\* A LoaderContext built and used without a LoaderWorker.
NextContext ==
    \/ \E hasSink \in BOOLEAN : LoaderContextInit(hasSink)
    \/ \E text \in Messages : DirectLog(text)
    \/ \E value \in Fractions : DirectSetProgress(value)

SpecContext == Init /\ [][NextContext]_vars

----------------------------------------------------------------------------
(* Toggle *)

\* The handler _make_handler(segment_id) connects to a button's toggled
\* signal: what it emits as selectionChanged.
Handler(segment_id, checked) == IF checked THEN <<segment_id>> ELSE <<>>

\* QAbstractButton.setChecked(True) on the button of option id, in the
\* exclusive group: nothing when it is checked already; otherwise it becomes
\* checked and the other unchecked, and each emits toggled to its handler.
SetChecked(t, id) ==
    IF t.checked = id THEN t
    ELSE LET other == IF id = LeftId THEN RightId ELSE LeftId
             unchecked == IF t.checked = other THEN Handler(other, FALSE) ELSE <<>>
         IN  [t EXCEPT !.checked = id,
                       !.emitted = @ \o unchecked \o Handler(id, TRUE)]

\* Toggle.set_current_id(id, emit), on a toggle t.
SetCurrentId(t, id, emit) ==
    IF id \notin {LeftId, RightId}
    THEN [t EXCEPT !.raised = Append(@, "ValueError")]
    ELSE LET set == SetChecked(t, id)
         IN  IF emit THEN [set EXCEPT !.emitted = Append(@, id)] ELSE set

\* The signals of the sequence sigs that come after the first n.
Since(sigs, n) == SubSeq(sigs, n + 1, Len(sigs))

\* Toggle.__init__: the handlers are connected, then the left button checked.
ToggleInit ==
    /\ ~toggle.built
    /\ toggle' = SetChecked([NoToggle EXCEPT !.built = TRUE], LeftId)
    /\ UNCHANGED <<ctx, ctxCalls, ctxSent, ctxRaised, core, misuse>>

\* A call of set_current_id; the call is recorded with the selection before
\* it and the selectionChanged signals emitted during it.
ToggleSetCurrentId(id, emit) ==
    /\ toggle.built
    /\ Len(toggle.calls) < MaxToggleCalls
    /\ LET after == SetCurrentId(toggle, id, emit)
       IN  toggle' = [after EXCEPT !.calls = Append(@,
                         [id |-> id, emit |-> emit, before |-> toggle.checked,
                          emitted |-> Since(after.emitted, Len(toggle.emitted))])]
    /\ UNCHANGED <<ctx, ctxCalls, ctxSent, ctxRaised, core, misuse>>

\* The user clicks the button of option id.
ToggleClick(id) ==
    /\ toggle.built
    /\ Len(toggle.emitted) < MaxToggleCalls
    /\ toggle' = SetChecked(toggle, id)
    /\ UNCHANGED <<ctx, ctxCalls, ctxSent, ctxRaised, core, misuse>>

NextToggle ==
    \/ ToggleInit
    \/ \E id \in {LeftId, RightId, UnknownId}, emit \in BOOLEAN :
           ToggleSetCurrentId(id, emit)
    \/ \E id \in {LeftId, RightId} : ToggleClick(id)

SpecToggle == Init /\ [][NextToggle]_vars

----------------------------------------------------------------------------
(* LoaderWorker *)

\* Faulty variant of NewContext: one context, bound to the first worker, is
\* kept and handed to every body.
SharedContext(i, n) == [owner |-> "A", run |-> 1]

\* The LoaderContext _run_task builds at each call: its two sinks emit the
\* signals of self.
NewContext(i, n) == [owner |-> i, run |-> n]

\* moveToThread(thread) in start(): the worker then lives in its QThread.
MoveToThread(i) == ExecThread(i)

\* Faulty variant of RunTaskSignals: the except branch does not return and goes on
\* to emit finished.
RunTaskSignalsFallThrough(o) ==
    CASE o.kind = "return" -> <<[kind |-> "finished", val |-> o.val]>>
      [] o.kind = "raise" /\ o.val \in {"ValueError"} ->
            <<[kind |-> "failed", val |-> o.val], [kind |-> "finished", val |-> ""]>>
      [] OTHER -> <<>>

\* Faulty variant of RunTaskSignals: finished is not emitted after a normal return.
RunTaskSignalsNoFinished(o) ==
    CASE o.kind = "raise" /\ o.val \in {"ValueError"} ->
            <<[kind |-> "failed", val |-> o.val]>>
      [] OTHER -> <<>>

\* The signals _run_task emits once the body has ended with outcome o.
RunTaskSignals(o) ==
    CASE o.kind = "return" -> <<[kind |-> "finished", val |-> o.val]>>
      [] o.kind = "raise" /\ IsException(o.val) ->
            <<[kind |-> "failed", val |-> o.val]>>
      [] OTHER -> <<>>

\* Whether the body's outcome leaves _run_task as an uncaught exception.
Escapes(o) == o.kind = "raise" /\ ~IsException(o.val)

\* The process runs: an aborted process takes no further step.
Alive == ~crashed

\* The owning thread is inside run_with_loader or inside a slot.
MainBusy ==
    \/ \E i \in Inv : rwl[i] \in {"built", "starting"}
    \/ \E i \in Inv : runningOn[i] = MainThread

\* Faulty variant of RunWithLoader: building the worker already starts its
\* QThread.
RunWithLoaderEager(i, cb) ==
    /\ Alive
    /\ ~MainBusy
    /\ rwl[i] = "notcalled"
    /\ i = "B" => rwl["A"] # "notcalled"
    /\ rwl' = [rwl EXCEPT ![i] = "built"]
    /\ callbacks' = [callbacks EXCEPT ![i] = cb]
    /\ ui' = [ui EXCEPT ![i] = NewDialog]
    /\ affinity' = [affinity EXCEPT ![i] = MoveToThread(i)]
    /\ exec' = [exec EXCEPT ![i] = "spawned"]
    /\ UNCHANGED <<standalone, ctxOf>>
    /\ UNCHANGED <<threads, runningOn, bodyRuns, calls, outcome, escaped,
                   emitted, mainQ, workerDeleted, misuse>>

\* run_with_loader up to worker.start(): the dialog and the worker are
\* built and the signals connected.  The calls are named in the order they
\* are made: "A" is the first.
RunWithLoader(i, cb) ==
    /\ Alive
    /\ ~MainBusy
    /\ rwl[i] = "notcalled"
    /\ i = "B" => rwl["A"] # "notcalled"
    /\ rwl' = [rwl EXCEPT ![i] = "built"]
    /\ callbacks' = [callbacks EXCEPT ![i] = cb]
    /\ ui' = [ui EXCEPT ![i] = NewDialog]
    /\ UNCHANGED <<standalone, ctxOf>>
    /\ UNCHANGED <<affinity, threads, exec, runningOn, bodyRuns, calls, outcome,
                   escaped, emitted, mainQ, workerDeleted, misuse>>

\* worker.start() in run_with_loader: the QThread is made, the worker moved
\* to it, started / quit / deleteLater connected and the thread started.
WorkerStart(i) ==
    /\ Alive
    /\ rwl[i] = "built"
    /\ rwl' = [rwl EXCEPT ![i] = "starting"]
    /\ affinity' = [affinity EXCEPT ![i] = MoveToThread(i)]
    /\ starts' = [starts EXCEPT ![i] = @ + 1]
    /\ threads' = [threads EXCEPT ![i] = @ + 1]
    /\ exec' = [exec EXCEPT ![i] = "spawned"]
    /\ UNCHANGED <<standalone, ctxOf>>
    /\ UNCHANGED <<callbacks, runningOn, bodyRuns, calls, outcome, escaped,
                   emitted, mainQ, ui, workerDeleted, later, pendingRuns,
                   runsBehind, lateCalls, raised, crashed>>

\* Faulty variant of DialogShow: run_with_loader joins the QThread before it
\* shows the dialog and returns.
DialogShowAfterJoin(i) ==
    /\ Alive
    /\ rwl[i] = "starting"
    /\ exec[i] = "finished"
    /\ rwl' = [rwl EXCEPT ![i] = "returned"]
    /\ ui' = [ui EXCEPT ![i].dialog = "shown"]
    /\ UNCHANGED <<standalone, ctxOf>>
    /\ UNCHANGED <<callbacks, affinity, threads, exec, runningOn, bodyRuns,
                   calls, outcome, escaped, emitted, mainQ, workerDeleted, misuse>>

\* run_with_loader's last statement, dialog.show(), and its return.
DialogShow(i) ==
    /\ Alive
    /\ rwl[i] = "starting"
    /\ rwl' = [rwl EXCEPT ![i] = "returned"]
    /\ ui' = [ui EXCEPT ![i].dialog = "shown"]
    /\ UNCHANGED <<standalone, ctxOf>>
    /\ UNCHANGED <<callbacks, affinity, threads, exec, runningOn, bodyRuns,
                   calls, outcome, escaped, emitted, mainQ, workerDeleted, misuse>>

\* Faulty variant of EnterRunTask: the body is called, and called again.
EnterRunTaskTwice(i, th) ==
    /\ runningOn' = [runningOn EXCEPT ![i] = th]
    /\ bodyRuns' = [bodyRuns EXCEPT ![i] = Append(Append(@, th), th)]
    /\ ctxOf' = [ctxOf EXCEPT ![i] = NewContext(i, Len(bodyRuns[i]) + 2)]

\* _run_task entered on thread th: the context is built and the body called.
EnterRunTask(i, th) ==
    /\ runningOn' = [runningOn EXCEPT ![i] = th]
    /\ bodyRuns' = [bodyRuns EXCEPT ![i] = Append(@, th)]
    /\ ctxOf' = [ctxOf EXCEPT ![i] = NewContext(i, Len(bodyRuns[i]) + 1)]

\* The new QThread emits started(); _run_task is connected to it.
ThreadStarted(i) ==
    /\ Alive
    /\ exec[i] = "spawned"
    /\ IF ConnectionType(affinity[i], ExecThread(i)) = "direct"
       THEN /\ exec' = [exec EXCEPT ![i] = "run_task"]
            /\ EnterRunTask(i, ExecThread(i))
            /\ UNCHANGED mainQ
       ELSE /\ exec' = [exec EXCEPT ![i] = "loop"]
            /\ mainQ' = Post(mainQ, [inv |-> i, slot |-> "_run_task", arg |-> ""])
            /\ UNCHANGED <<runningOn, bodyRuns, ctxOf>>
    /\ UNCHANGED standalone
    /\ UNCHANGED <<rwl, callbacks, affinity, threads, calls, outcome, escaped,
                   emitted, ui, workerDeleted, misuse>>

\* The body calls ctx.log(text) on the context it was given, whose sink
\* emits the message signal of the worker that built the context.
TaskLog(i, text) ==
    /\ Alive
    /\ runningOn[i] # NoThread
    /\ Len(calls[i]) < MaxCalls
    /\ calls' = [calls EXCEPT ![i] = Append(@, [kind |-> "message", val |-> text])]
    /\ LET w == ctxOf[i].owner
       IN  Store(EmitAll(Here(w), w, ContextLog(text), runningOn[i], callbacks[w]), w)
    /\ UNCHANGED <<standalone, ctxOf>>
    /\ UNCHANGED <<rwl, callbacks, affinity, threads, exec, runningOn, bodyRuns,
                   outcome, escaped, workerDeleted, misuse>>

\* The body calls ctx.set_progress(value).
TaskProgress(i, value) ==
    /\ Alive
    /\ runningOn[i] # NoThread
    /\ Len(calls[i]) < MaxCalls
    /\ calls' = [calls EXCEPT ![i] = Append(@, [kind |-> "progress", val |-> value])]
    /\ LET w == ctxOf[i].owner
       IN  Store(EmitAll(Here(w), w, ContextSetProgress(value, TRUE), runningOn[i],
                         callbacks[w]), w)
    /\ UNCHANGED <<standalone, ctxOf>>
    /\ UNCHANGED <<rwl, callbacks, affinity, threads, exec, runningOn, bodyRuns,
                   outcome, escaped, workerDeleted, misuse>>

\* The body ends with outcome o; _run_task emits its signals and returns.
TaskEnd(i, o) ==
    /\ Alive
    /\ runningOn[i] # NoThread
    /\ outcome' = [outcome EXCEPT ![i] = o]
    /\ escaped' = [escaped EXCEPT ![i] = Escapes(o)]
    /\ Store(EmitAll(Here(i), i, RunTaskSignals(o), runningOn[i], callbacks[i]), i)
    /\ runningOn' = [runningOn EXCEPT ![i] = NoThread]
    /\ exec' = [exec EXCEPT ![i] =
                   IF runningOn[i] = ExecThread(i) THEN "loop" ELSE @]
    /\ UNCHANGED <<standalone, ctxOf>>
    /\ UNCHANGED <<rwl, callbacks, affinity, threads, bodyRuns, calls,
                   workerDeleted, misuse>>

\* The body returns result.
TaskReturn(i, result) == TaskEnd(i, [kind |-> "return", val |-> result])

\* The body raises exc.
TaskRaise(i, exc) == TaskEnd(i, [kind |-> "raise", val |-> exc])

\* The QThread of u that a thread slot name belongs to: 0 for the first, n
\* for the n-th later one, and 0 for a slot that is not a thread's.
ThreadOf(u, slot) ==
    LET of == {n \in DOMAIN u.quitLater :
                  slot \in {QuitSlot(n), DeleteLaterSlot(n), DeferredDelete(n)}}
    IN  IF of = {} THEN 0 ELSE CHOOSE n \in of : TRUE

\* The owning thread's event loop runs the next posted call: _run_task of a
\* worker that lives there, thread.deleteLater (which posts the deferred
\* delete of the QThread object), that deferred delete (the QThread object
\* is destroyed and the calls still posted to it are dropped), or a slot
\* connected to a worker signal.
Dispatch ==
    /\ Alive
    /\ ~MainBusy
    /\ mainQ # <<>>
    /\ LET call == Head(mainQ)
           i == call.inv
           n == ThreadOf(ui[i], call.slot)
       IN  IF call.slot = "_run_task"
           THEN /\ EnterRunTask(i, MainThread)
                /\ mainQ' = Tail(mainQ)
                /\ UNCHANGED ui
           ELSE IF call.slot = DeleteLaterSlot(n)
           THEN /\ mainQ' = Post(Tail(mainQ),
                                 [inv |-> i, slot |-> DeferredDelete(n), arg |-> ""])
                /\ UNCHANGED <<ui, runningOn, bodyRuns, ctxOf>>
           ELSE IF call.slot = DeferredDelete(n)
           THEN /\ ui' = [ui EXCEPT ![i].threadsDeleted = @ \cup {n}]
                /\ mainQ' = SelectSeq(Tail(mainQ), LAMBDA c :
                                ~(c.inv = i /\ c.slot = ThreadSlot("quit", n)))
                /\ UNCHANGED <<runningOn, bodyRuns, ctxOf>>
           ELSE /\ ui' = [ui EXCEPT ![i] =
                            RunSlot(@, call.slot, call.arg, MainThread, callbacks[i],
                                    workerDeleted[i])]
                /\ mainQ' = Tail(mainQ)
                /\ UNCHANGED <<runningOn, bodyRuns, ctxOf>>
    /\ UNCHANGED standalone
    /\ UNCHANGED <<rwl, callbacks, affinity, threads, exec, calls, outcome,
                   escaped, emitted, workerDeleted, misuse>>

\* The worker's event loop runs the deferred delete asked by deleteLater(),
\* once the calls posted to the worker ahead of it have run.
WorkerDelete(i) ==
    /\ Alive
    /\ exec[i] = "loop"
    /\ ui[i].deleteLater > 0
    /\ ~workerDeleted[i]
    /\ pendingRuns[i] = runsBehind[i]
    /\ workerDeleted' = [workerDeleted EXCEPT ![i] = TRUE]
    /\ UNCHANGED <<standalone, ctxOf>>
    /\ UNCHANGED <<rwl, callbacks, affinity, threads, exec, runningOn, bodyRuns,
                   calls, outcome, escaped, emitted, mainQ, ui, misuse>>

\* The worker's event loop leaves after quit(); the thread finishes and
\* the deferred deletes still pending in it are run.  The QThread emits
\* finished(), to which its own deleteLater is connected: the QThread object
\* lives in the owning thread, so the call is posted there.
ThreadFinish(i) ==
    /\ Alive
    /\ exec[i] = "loop"
    /\ ui[i].quit > 0
    /\ exec' = [exec EXCEPT ![i] = "finished"]
    /\ workerDeleted' = [workerDeleted EXCEPT ![i] = @ \/ ui[i].deleteLater > 0]
    /\ mainQ' = Post(mainQ, [inv |-> i, slot |-> DeleteLaterSlot(0), arg |-> ""])
    /\ UNCHANGED <<standalone, ctxOf>>
    /\ UNCHANGED <<rwl, callbacks, affinity, threads, runningOn, bodyRuns,
                   calls, outcome, escaped, emitted, ui, misuse>>

\* The dialog of call j was shown after that of call i: the calls are made
\* one after the other on the owning thread, "A" first, and each shows its
\* dialog before it returns.
ShownAfter(j, i) == i = "A" /\ j = "B"

\* The dialog of call i is blocked: every LoaderDialog is modal (setModal)
\* and shown with show(), so one shown later blocks it for user input as
\* long as it is shown.
Blocked(i) == \E j \in Inv : ShownAfter(j, i) /\ ui[j].dialog = "shown"

\* The user presses Escape in the shown dialog, which no later dialog
\* blocks.  LoaderDialog removes the close button but overrides neither
\* keyPressEvent nor reject, so QDialog rejects: the dialog is hidden.
\* closeEvent is not called, so the spinner keeps running, and the worker
\* is not told.
DialogReject(i) ==
    /\ Alive
    /\ ~MainBusy
    /\ ui[i].dialog = "shown"
    /\ ~Blocked(i)
    /\ ui' = [ui EXCEPT ![i].dialog = "rejected"]
    /\ UNCHANGED <<standalone, ctxOf>>
    /\ UNCHANGED <<rwl, callbacks, affinity, threads, exec, runningOn, bodyRuns,
                   calls, outcome, escaped, emitted, mainQ, workerDeleted, misuse>>

\* on_result and on_error are optional, and a callback given may raise.
CallbackChoices ==
    {cb \in [on_result : BOOLEAN, on_error : BOOLEAN, raises : BOOLEAN] :
        cb.raises => (cb.on_result \/ cb.on_error)}

\* The steps of invocation i that run_with_loader and its task body take.
Step(i) ==
    \/ \E cb \in CallbackChoices : RunWithLoader(i, cb)
    \/ WorkerStart(i)
    \/ DialogShow(i)
    \/ ThreadStarted(i)
    \/ \E text \in Messages : TaskLog(i, text)
    \/ \E value \in Fractions : TaskProgress(i, value)
    \/ \E result \in Results : TaskReturn(i, result)
    \/ \E exc \in Errors : TaskRaise(i, exc)
    \/ WorkerDelete(i)
    \/ ThreadFinish(i)
    \/ DialogReject(i)

\* One run_with_loader call, used as the API documents.
Next ==
    \/ Step("A")
    \/ Dispatch

Spec == Init /\ [][Next]_vars

\* The same call under fair scheduling: the owning thread leaves
\* run_with_loader and keeps running its event loop, and the QThread, once
\* started, runs and serves its own event loop.  Nothing is assumed of the
\* task body, which may never end.
Fairness ==
    /\ WF_vars(WorkerStart("A"))
    /\ WF_vars(DialogShow("A"))
    /\ WF_vars(Dispatch)
    /\ WF_vars(ThreadStarted("A"))
    /\ WF_vars(WorkerDelete("A"))
    /\ WF_vars(ThreadFinish("A"))

SpecFair == Init /\ [][Next]_vars /\ Fairness

\* Two run_with_loader calls whose tasks run concurrently.  Each task logs
\* texts of its own and ends with a value of its own or with an error that
\* _run_task reports, so that an event is known by what it carries.
TwoMessages(i) == IF i = "A" THEN {"step1"} ELSE {"step2"}
TwoFractions(i) == IF i = "A" THEN {"0.5"} ELSE {"1.5"}
TwoResults(i) == IF i = "A" THEN {"42"} ELSE {"7"}
TwoErrors(i) == {"ValueError"}
TwoCallbacks == {[on_result |-> TRUE, on_error |-> TRUE, raises |-> FALSE]}

StepTwo(i) ==
    \/ \E cb \in TwoCallbacks : RunWithLoader(i, cb)
    \/ WorkerStart(i)
    \/ DialogShow(i)
    \/ ThreadStarted(i)
    \/ \E text \in TwoMessages(i) : TaskLog(i, text)
    \/ \E value \in TwoFractions(i) : TaskProgress(i, value)
    \/ \E result \in TwoResults(i) : TaskReturn(i, result)
    \/ \E exc \in TwoErrors(i) : TaskRaise(i, exc)
    \/ WorkerDelete(i)
    \/ ThreadFinish(i)
    \/ DialogReject(i)

NextTwo ==
    \/ StepTwo("A")
    \/ StepTwo("B")
    \/ Dispatch

SpecTwo == Init /\ [][NextTwo]_vars

\* The dialog's parent widget is destroyed on the owning thread while the
\* dialog is shown or was dismissed, and its child, the dialog, with it.  Qt drops the calls
\* already posted to the dialog.
DialogDestroyed(i) ==
    /\ Alive
    /\ ~MainBusy
    /\ ui[i].dialog \in {"shown", "rejected"}
    /\ ui' = [ui EXCEPT ![i].dialog = "destroyed", ![i].spinner = FALSE]
    /\ mainQ' = SelectSeq(mainQ, LAMBDA c : ~(c.inv = i /\ c.slot \in DialogSlots))
    /\ UNCHANGED <<standalone, ctxOf>>
    /\ UNCHANGED <<rwl, callbacks, affinity, threads, exec, runningOn, bodyRuns,
                   calls, outcome, escaped, emitted, workerDeleted, misuse>>

\* One run_with_loader call whose dialog may be torn down under it.
NextTeardown ==
    \/ Step("A")
    \/ Dispatch
    \/ DialogDestroyed("A")

SpecTeardown == Init /\ [][NextTeardown]_vars

----------------------------------------------------------------------------
(* Use outside the documented protocol: start() called again on a worker,  *)
(* and a LoaderContext used after its task body has ended.                 *)

\* The state of the QThread that self._thread refers to: a start() call that
\* did not reach thread.start() has left a QThread there that never ran.
SelfThread(i) ==
    IF threads[i] < starts[i] THEN "unstarted"
    ELSE IF later[i] = <<>> THEN exec[i]
    ELSE later[i][Len(later[i])]

\* QThread.isRunning, by the thread's state.
Running(state) == state \in {"spawned", "run_task", "loop"}

\* The number of the QThread that self._thread refers to: 0 for the first.
SelfThreadNo(i) == Len(later[i])

\* The slots of QThread n to which calls may be posted.
ThreadSlots(n) ==
    {ThreadSlot("quit", n), DeleteLaterSlot(n), DeferredDelete(n)}

\* LoaderWorker.start() called again from the owning thread; kept: the
\* caller holds a reference of its own to the QThread in self._thread.  The
\* method has no guard and runs line by line.  `self._thread = thread`
\* drops the old QThread.  When that was its last reference, the QThread
\* object is destroyed: Qt aborts the process when the thread is still
\* running; a thread that has finished goes with its connections and the
\* calls posted to it; one that never ran just goes.  Then moveToThread
\* raises RuntimeError on a worker whose C++ object is deleted; on a live
\* worker it is refused, being called from another thread than the
\* worker's, and the worker stays where it is.  Then the new QThread's
\* started is connected to _run_task, its quit to finished and failed, and
\* it is started.
StartAgain(i, kept) ==
    /\ Alive
    /\ ~MainBusy
    /\ rwl[i] = "returned"
    /\ starts[i] < MaxStarts
    /\ starts' = [starts EXCEPT ![i] = @ + 1]
    /\ IF ~kept /\ Running(SelfThread(i))
       THEN /\ crashed' = TRUE
            /\ UNCHANGED <<threads, later, ui, mainQ, raised>>
       ELSE LET n == SelfThreadNo(i)
                dropped == ~kept /\ SelfThread(i) = "finished"
                u == IF dropped
                     THEN [ui[i] EXCEPT !.threadsDeleted = @ \cup {n}]
                     ELSE ui[i]
            IN  /\ mainQ' = IF dropped
                            THEN SelectSeq(mainQ, LAMBDA c :
                                     ~(c.inv = i /\ c.slot \in ThreadSlots(n)))
                            ELSE mainQ
                /\ IF workerDeleted[i]
                   THEN /\ raised' = [raised EXCEPT ![i] = Append(@, "RuntimeError")]
                        /\ ui' = [ui EXCEPT ![i] = u]
                        /\ UNCHANGED <<threads, later, crashed>>
                   ELSE /\ threads' = [threads EXCEPT ![i] = @ + 1]
                        /\ later' = [later EXCEPT ![i] = Append(@, "spawned")]
                        /\ ui' = [ui EXCEPT ![i] = [u EXCEPT !.quitLater = Append(@, 0)]]
                        /\ UNCHANGED <<raised, crashed>>
    /\ UNCHANGED <<standalone, ctxOf>>
    /\ UNCHANGED <<rwl, callbacks, affinity, exec, runningOn, bodyRuns, calls,
                   outcome, escaped, emitted, workerDeleted, pendingRuns,
                   runsBehind, lateCalls>>

\* The n-th later QThread emits started() and enters its event loop.  The
\* worker lives in another thread, so _run_task is posted to the worker's
\* thread, behind the deferred delete when one is waiting there; nothing is
\* posted once the worker is deleted, its connections being gone.
ThreadStartedAgain(i, n) ==
    /\ Alive
    /\ n \in DOMAIN later[i]
    /\ later[i][n] = "spawned"
    /\ later' = [later EXCEPT ![i][n] = "loop"]
    /\ IF workerDeleted[i]
       THEN UNCHANGED <<pendingRuns, runsBehind>>
       ELSE /\ pendingRuns' = [pendingRuns EXCEPT ![i] = @ + 1]
            /\ runsBehind' = [runsBehind EXCEPT ![i] =
                                 IF ui[i].deleteLater > 0 THEN @ + 1 ELSE @]
    /\ UNCHANGED <<standalone, core>>
    /\ UNCHANGED <<starts, lateCalls, raised, crashed>>

\* The event loop of the worker's thread runs a posted _run_task call that
\* is not behind the deferred delete.
RunTaskAgain(i) ==
    /\ Alive
    /\ exec[i] = "loop"
    /\ pendingRuns[i] > runsBehind[i]
    /\ ~workerDeleted[i]
    /\ pendingRuns' = [pendingRuns EXCEPT ![i] = @ - 1]
    /\ exec' = [exec EXCEPT ![i] = "run_task"]
    /\ EnterRunTask(i, ExecThread(i))
    /\ UNCHANGED standalone
    /\ UNCHANGED <<rwl, callbacks, affinity, threads, calls, outcome, escaped,
                   emitted, mainQ, ui, workerDeleted, starts, later, runsBehind,
                   lateCalls, raised, crashed>>

\* The event loop of the n-th later QThread leaves after its quit(); the
\* QThread emits finished() and its deleteLater is posted to the owning
\* thread.
ThreadFinishAgain(i, n) ==
    /\ Alive
    /\ n \in DOMAIN later[i]
    /\ later[i][n] = "loop"
    /\ ui[i].quitLater[n] > 0
    /\ later' = [later EXCEPT ![i][n] = "finished"]
    /\ mainQ' = Post(mainQ, [inv |-> i, slot |-> DeleteLaterSlot(n), arg |-> ""])
    /\ UNCHANGED <<standalone, ctxOf>>
    /\ UNCHANGED <<rwl, callbacks, affinity, threads, exec, runningOn, bodyRuns,
                   calls, outcome, escaped, emitted, ui, workerDeleted>>
    /\ UNCHANGED <<starts, pendingRuns, runsBehind, lateCalls, raised, crashed>>

\* A call ctx.log / ctx.set_progress, given as the signals sigs it emits, made
\* from LateThread after the body ended: the context has no state and
\* forwards as before; the emission raises RuntimeError once the worker
\* object is deleted.
LateCall(i, call, sigs) ==
    /\ Alive
    /\ outcome[i] # NoOutcome
    /\ runningOn[i] = NoThread
    /\ Len(lateCalls[i]) < MaxLate
    /\ lateCalls' = [lateCalls EXCEPT ![i] = Append(@, call)]
    /\ IF workerDeleted[i]
       THEN /\ raised' = [raised EXCEPT ![i] = Append(@, "RuntimeError")]
            /\ UNCHANGED <<mainQ, ui, emitted>>
       ELSE /\ LET w == ctxOf[i].owner
               IN  Store(EmitAll(Here(w), w, sigs, LateThread, callbacks[w]), w)
            /\ UNCHANGED raised
    /\ UNCHANGED <<standalone, ctxOf>>
    /\ UNCHANGED <<rwl, callbacks, affinity, threads, exec, runningOn, bodyRuns,
                   calls, outcome, escaped, workerDeleted, starts, later,
                   pendingRuns, runsBehind, crashed>>

LateLog(i, text) ==
    LateCall(i, [kind |-> "message", val |-> text], ContextLog(text))

LateProgress(i, value) ==
    LateCall(i, [kind |-> "progress", val |-> value],
             ContextSetProgress(value, TRUE))

\* One worker whose start() is called again.  An aborted process takes no
\* further step.
NextRestart ==
    \/ Step("A")
    \/ Dispatch
    \/ \E kept \in BOOLEAN : StartAgain("A", kept)
    \/ \E n \in 1..MaxStarts : ThreadStartedAgain("A", n)
    \/ RunTaskAgain("A")
    \/ \E n \in 1..MaxStarts : ThreadFinishAgain("A", n)

SpecRestart == Init /\ [][NextRestart]_vars

\* One invocation whose task body keeps its context and uses it afterwards.
NextLateUse ==
    \/ Step("A")
    \/ Dispatch
    \/ \E text \in Messages : LateLog("A", text)
    \/ \E value \in Fractions : LateProgress("A", value)

SpecLateUse == Init /\ [][NextLateUse]_vars

----------------------------------------------------------------------------
(* Properties *)

\* The places of seq holding an event of the given kinds.
Positions(seq, kinds) == {k \in DOMAIN seq : seq[k].kind \in kinds}

TerminalKinds == {"finished", "failed"}
StreamKinds == {"message", "progress"}

\* What an observed event carries, without the thread that observed it.
Payload(seq) == [k \in DOMAIN seq |-> [kind |-> seq[k].kind, val |-> seq[k].val]]

\* The log and progress events of seq, in order.
RECURSIVE StreamOf(_)
StreamOf(seq) ==
    IF seq = <<>> THEN <<>>
    ELSE IF Head(seq).kind \in StreamKinds
         THEN <<Head(seq)>> \o StreamOf(Tail(seq))
         ELSE StreamOf(Tail(seq))

IsPrefix(a, b) == Len(a) <= Len(b) /\ a = SubSeq(b, 1, Len(a))

\* A slot call of invocation i is still waiting in the owning thread's queue.
Pending(i) == \E k \in DOMAIN mainQ : mainQ[k].inv = i

Range(seq) == {seq[k] : k \in DOMAIN seq}

\* C1: a LoaderWorker emits at most one terminal signal (finished or failed),
\* and never both finished and failed.
C1_AtMostOneTerminalEmitted ==
    \A i \in Inv :
        /\ Cardinality(Positions(emitted[i], TerminalKinds)) <= 1
        /\ ~(/\ Positions(emitted[i], {"finished"}) # {}
             /\ Positions(emitted[i], {"failed"}) # {})

\* C1 witness: a body that logged and then raised has had failed emitted.
C1_Witness ==
    \E i \in Inv :
        /\ outcome[i].kind = "raise"
        /\ calls[i] # <<>>
        /\ Positions(emitted[i], {"failed"}) # {}

\* C2: when the body returned, the observer sees no failed event and at most
\* one finished event, which is the last event observed; once every posted
\* call of the invocation has run it has seen exactly one.
C2_ReturnEndsInOneCompleted ==
    \A i \in Inv :
        outcome[i].kind = "return" =>
            LET d == ui[i].delivered
            IN  /\ Positions(d, {"failed"}) = {}
                /\ Positions(d, {"finished"}) \subseteq {Len(d)}
                /\ ~Pending(i) => Positions(d, {"finished"}) = {Len(d)}

\* C2 witness: a body logged twice and returned, and all of it was observed.
C2_Witness ==
    \E i \in Inv :
        /\ outcome[i].kind = "return"
        /\ ~Pending(i)
        /\ Len(ui[i].delivered) = 3
        /\ ui[i].delivered[3].kind = "finished"

\* C3: when the body raised, the observer sees no finished event and at most
\* one failed event; once every posted call of the invocation has run it has
\* seen exactly one.
C3_RaiseEndsInOneFailed ==
    \A i \in Inv :
        outcome[i].kind = "raise" =>
            LET d == ui[i].delivered
            IN  /\ Positions(d, {"finished"}) = {}
                /\ Cardinality(Positions(d, {"failed"})) <= 1
                /\ ~Pending(i) => Cardinality(Positions(d, {"failed"})) = 1

\* C4: the log and progress events observed are, in order, the calls the body
\* made so far (a prefix of them), and once the terminal event is observed
\* they are all of the calls and the terminal event comes after them.
C4_FifoBeforeTerminal ==
    \A i \in Inv :
        LET d == Payload(ui[i].delivered)
        IN  /\ IsPrefix(StreamOf(d), calls[i])
            /\ Positions(d, TerminalKinds) # {} =>
                   /\ StreamOf(d) = calls[i]
                   /\ Positions(d, TerminalKinds) = {Len(d)}

\* C4 witness: a progress call then a log call, both observed in that order
\* before the terminal event.
C4_Witness ==
    \E i \in Inv :
        LET d == ui[i].delivered
        IN  /\ Len(d) = 3
            /\ d[1].kind = "progress"
            /\ d[2].kind = "message"
            /\ d[3].kind \in TerminalKinds

\* C5: a second start() raises MisuseError, starts no second QThread and does
\* not run the body again.
C5_SecondStartRejected ==
    \A i \in Inv :
        /\ threads[i] <= 1
        /\ Len(bodyRuns[i]) <= 1
        /\ starts[i] > 1 => "MisuseError" \in Range(raised[i])

\* C6: no log or progress event is observed after the terminal event.
C6_NoEventAfterTerminal ==
    \A i \in Inv :
        LET d == ui[i].delivered
        IN  \A k, m \in DOMAIN d :
                (k < m /\ d[k].kind \in TerminalKinds) => d[m].kind \notin StreamKinds

\* C7: on_result and on_error are together invoked at most once per call.
C7_CallbacksExclusive ==
    \A i \in Inv : Len(ui[i].onResult) + Len(ui[i].onError) <= 1

\* C7 witness: both callbacks were given and on_error has been invoked.
C7_Witness ==
    \E i \in Inv :
        /\ callbacks[i].on_result
        /\ callbacks[i].on_error
        /\ Len(ui[i].onError) = 1

\* C8: every dialog slot, terminal handler and callback runs on the owning
\* thread, and the task body runs only on the worker's QThread.
C8_ThreadConfinement ==
    \A i \in Inv :
        /\ \A k \in DOMAIN ui[i].delivered : ui[i].delivered[k].thread = MainThread
        /\ \A k \in DOMAIN ui[i].onResult : ui[i].onResult[k].thread = MainThread
        /\ \A k \in DOMAIN ui[i].onError : ui[i].onError[k].thread = MainThread
        /\ \A k \in DOMAIN bodyRuns[i] : bodyRuns[i][k] = ExecThread(i)
        /\ runningOn[i] \in {NoThread, ExecThread(i)}

\* C8 witness: the body ran, and a log event, the terminal event and on_result
\* were all handled.
C8_Witness ==
    \E i \in Inv :
        /\ bodyRuns[i] # <<>>
        /\ Positions(ui[i].delivered, {"message"}) # {}
        /\ Positions(ui[i].delivered, {"finished"}) # {}
        /\ ui[i].onResult # <<>>

\* C9: on_result receives the value the body returned and on_error the error
\* it raised.
C9_PayloadsPreserved ==
    \A i \in Inv :
        /\ \A k \in DOMAIN ui[i].onResult :
               outcome[i] = [kind |-> "return", val |-> ui[i].onResult[k].val]
        /\ \A k \in DOMAIN ui[i].onError :
               outcome[i] = [kind |-> "raise", val |-> ui[i].onError[k].val]

\* C9 witness: on_result was invoked with the second result value.
C9_Witness ==
    \E i \in Inv :
        /\ ui[i].onResult # <<>>
        /\ ui[i].onResult[1].val = "7"

\* C9, failure path: on_error was invoked with the error that was raised.
C9_ErrorCase ==
    \E i \in Inv : ui[i].onError # <<>> /\ ui[i].onError[1].val = "ValueError"

\* C10: no exception raised by the body leaves _run_task: each is caught and
\* turned into the failed signal.
C10_NoFailureEscapes ==
    \A i \in Inv :
        outcome[i].kind = "raise" =>
            /\ ~escaped[i]
            /\ Positions(emitted[i], {"failed"}) # {}

\* C11: once the body has returned or raised, the terminal event is
\* eventually observed by the owning thread, exactly once, and the callback
\* supplied for that outcome is eventually invoked.
C11_TerminalEventuallyDelivered ==
    \A i \in Inv :
        (outcome[i] # NoOutcome) ~>
            /\ Cardinality(Positions(ui[i].delivered, TerminalKinds)) = 1
            /\ (outcome[i].kind = "return" /\ callbacks[i].on_result)
                   => Len(ui[i].onResult) = 1
            /\ (outcome[i].kind = "raise" /\ callbacks[i].on_error)
                   => Len(ui[i].onError) = 1

\* C12 as stated: run_with_loader returns before the task has finished, so
\* while it has not yet returned the body has neither returned nor raised.
C12_ReturnsBeforeTaskFinished ==
    \A i \in Inv : rwl[i] = "starting" => outcome[i] = NoOutcome

\* C12 amended: run_with_loader never waits for the task.  Whatever the body
\* is doing (not yet entered, running, never ending, already ended), the
\* return of run_with_loader is possible at once.
C12_ReturnNeverWaits ==
    \A i \in Inv : rwl[i] = "starting" => ENABLED DialogShow(i)

\* C12 witness: run_with_loader has returned while the body is still running
\* and has already logged.
C12_Witness ==
    \E i \in Inv :
        /\ rwl[i] = "returned"
        /\ runningOn[i] = ExecThread(i)
        /\ outcome[i] = NoOutcome
        /\ calls[i] # <<>>

\* C13: teardown happens exactly once per invocation, on the success path and
\* on the failure path: quit is asked of the QThread at most once and
\* worker.deleteLater() is called at most once, and once the body has ended
\* and every posted call of the invocation has run, each exactly once.
C13_TeardownExactlyOnce ==
    \A i \in Inv :
        /\ ui[i].quit <= 1
        /\ ui[i].deleteLater <= 1
        /\ (outcome[i] # NoOutcome /\ ~Pending(i)) =>
               /\ ui[i].quit = 1
               /\ ui[i].deleteLater = 1

\* C14: the worker's release takes effect only once its QThread is no longer
\* running, that is not before the step in which the thread finishes.
C14_ReleaseAfterThreadStopped ==
    [][\A i \in Inv :
          (workerDeleted'[i] /\ ~workerDeleted[i]) => exec'[i] = "finished"]_vars

\* C15: with two calls running concurrently, what each call's dialog and
\* callbacks observe is that call's own: its own log and progress calls in
\* the order made, and at most one terminal event carrying its own outcome,
\* exactly one once its body has ended and its posted calls have run.
C15_InvocationsIndependent ==
    \A i \in Inv :
        LET d == Payload(ui[i].delivered)
            t == Positions(d, TerminalKinds)
        IN  /\ IsPrefix(StreamOf(d), calls[i])
            /\ Cardinality(t) <= 1
            /\ \A k \in t :
                   /\ k = Len(d)
                   /\ StreamOf(d) = calls[i]
                   /\ d[k].val = outcome[i].val
                   /\ d[k].kind = "finished" <=> outcome[i].kind = "return"
                   /\ d[k].kind = "failed" <=> outcome[i].kind = "raise"
            /\ \A k \in DOMAIN ui[i].onResult :
                   outcome[i] = [kind |-> "return", val |-> ui[i].onResult[k].val]
            /\ \A k \in DOMAIN ui[i].onError :
                   outcome[i] = [kind |-> "raise", val |-> ui[i].onError[k].val]
            /\ Len(ui[i].onResult) + Len(ui[i].onError) <= 1
            /\ (outcome[i] # NoOutcome /\ ~Pending(i)) => Cardinality(t) = 1

\* C15 witness: the first call's terminal event and callback have been
\* delivered while the second call's body, started before the first ended
\* its own, is still running and has had an event of its own delivered.
C15_Witness ==
    /\ Positions(ui["A"].delivered, TerminalKinds) # {}
    /\ Len(ui["A"].delivered) = 3
    /\ ui["A"].onResult # <<>>
    /\ runningOn["B"] = ExecThread("B")
    /\ ui["B"].delivered # <<>>
    /\ Len(calls["B"]) = 2

\* The lifecycle state of a worker, read off its QThread, its body and the
\* terminal signals it has emitted.
LifecycleOf(ex, running, em) ==
    LET t == Positions(em, TerminalKinds)
    IN  IF ex = "none" THEN "Idle"
        ELSE IF ex = "finished" THEN "Terminated"
        ELSE IF running # NoThread \/ t = {} THEN "Running"
        ELSE LET last == CHOOSE k \in t : \A m \in t : m <= k
             IN  IF em[last].kind = "finished" THEN "Completed" ELSE "Failed"

Lifecycle(i) == LifecycleOf(exec[i], runningOn[i], emitted[i])

Rank(state) ==
    CASE state = "Idle" -> 0
      [] state = "Running" -> 1
      [] state \in {"Completed", "Failed"} -> 2
      [] state = "Terminated" -> 3

\* C16: no step takes a worker backwards in Idle -> Running ->
\* {Completed | Failed} -> Terminated, turns Completed into Failed or Failed
\* into Completed, or emits a signal once the worker is Terminated.
C16_LifecycleForwardOnly ==
    [][\A i \in Inv :
          LET before == Lifecycle(i)
              after == LifecycleOf(exec'[i], runningOn'[i], emitted'[i])
          IN  /\ Rank(after) >= Rank(before)
              /\ Rank(before) = 2 => after \in {before, "Terminated"}
              /\ before = "Terminated" => emitted'[i] = emitted[i]]_vars

\* C17: a ctx.log or ctx.set_progress call made after the invocation's
\* terminal event has been delivered raises an exception.
C17_LateUseFailsFast ==
    [][\A i \in Inv :
          (/\ Len(lateCalls'[i]) > Len(lateCalls[i])
           /\ Positions(ui[i].delivered, TerminalKinds) # {})
              => Len(raised'[i]) > Len(raised[i])]_vars

\* C18: the task function is called at most once per run_with_loader call,
\* and exactly once as soon as the QThread has emitted started().
C18_TaskInvokedOnce ==
    \A i \in Inv :
        /\ Len(bodyRuns[i]) <= 1
        /\ exec[i] \notin {"none", "spawned"} => Len(bodyRuns[i]) = 1

\* C18 witness: the QThread of a call has run to its end and the task
\* function was called once, on that thread.
C18_Witness ==
    \E i \in Inv :
        /\ exec[i] = "finished"
        /\ bodyRuns[i] = <<ExecThread(i)>>

\* C19: the message and progress signals emitted are, one for one and in
\* order, the ctx.log and ctx.set_progress calls the body has made, each
\* carrying what the call was given.
C19_OneEventPerCall ==
    \A i \in Inv : StreamOf(emitted[i]) = calls[i]

\* C19 witness: the body logged and then reported a progress, and the two
\* signals were emitted.
C19_Witness ==
    \E i \in Inv :
        /\ calls[i] = <<[kind |-> "message", val |-> "step2"],
                        [kind |-> "progress", val |-> "1.5"]>>
        /\ Len(emitted[i]) >= 2

\* C20: on a LoaderContext built without send_progress, set_progress raises
\* nothing, calls no sink (send_message included) and leaves send_progress
\* unset, while every log call is forwarded to send_message: the sinks have
\* been called with exactly the log calls, in order.
C20_NoSinkNoOp ==
    (ctx.built /\ ctx.send_progress = "None") =>
        /\ ctxRaised = <<>>
        /\ ctxSent = SelectSeq(ctxCalls, LAMBDA c : c.kind = "message")

\* C20 witness: on such a context set_progress, log and set_progress were
\* called, and send_message received the one text.
C20_Witness ==
    /\ ctx.built
    /\ ctx.send_progress = "None"
    /\ ctxCalls = <<[kind |-> "progress", val |-> "0.5"],
                    [kind |-> "message", val |-> "step1"],
                    [kind |-> "progress", val |-> "1.5"]>>
    /\ ctxSent = <<[kind |-> "message", val |-> "step1"]>>

\* C21: with the dialog torn down while the task runs, the terminal outcome
\* and its callback are as with the dialog present: once the body has
\* returned, or raised an Exception, and every posted call has run, the
\* callback given for that outcome has been called once.
C21_OutcomeUnaffectedByTeardown ==
    \A i \in Inv :
        (ui[i].dialog = "destroyed" /\ ~Pending(i)) =>
            /\ (outcome[i].kind = "return" /\ callbacks[i].on_result)
                   => Len(ui[i].onResult) = 1
            /\ (outcome[i].kind = "raise" /\ IsException(outcome[i].val)
                    /\ callbacks[i].on_error)
                   => Len(ui[i].onError) = 1

\* C22: before LoaderWorker.start() has been called the worker has no
\* QThread, the task body has not been run, no signal was emitted and
\* nothing was delivered or posted to the owning thread for it.
C22_NothingBeforeStart ==
    \A i \in Inv :
        starts[i] = 0 =>
            /\ bodyRuns[i] = <<>>
            /\ runningOn[i] = NoThread
            /\ emitted[i] = <<>>
            /\ ui[i].delivered = <<>>
            /\ ~Pending(i)

\* C22 witness: the worker was started, the body ran and logged, and the
\* event was delivered.
C22_Witness ==
    \E i \in Inv :
        /\ starts[i] = 1
        /\ bodyRuns[i] # <<>>
        /\ Positions(ui[i].delivered, {"message"}) # {}

\* C22, the case before the start: the dialog and the worker of a call are
\* built and connected, start() not yet called.
C22_BuiltNotStarted ==
    \E i \in Inv : rwl[i] = "built" /\ starts[i] = 0 /\ ui[i].dialog = "hidden"

\* C23: the body of each invocation is given a context built for that run of
\* that worker: its sinks are its own worker's signals, no two workers hold
\* the same context, and what a worker has emitted as message and progress
\* signals is what its own body called.
C23_ContextOwnedByInvocation ==
    /\ \A i \in Inv :
           /\ bodyRuns[i] # <<>> => ctxOf[i] = [owner |-> i, run |-> Len(bodyRuns[i])]
           /\ bodyRuns[i] = <<>> => ctxOf[i] = NoCtx
           /\ StreamOf(emitted[i]) = calls[i]
    /\ \A i, j \in Inv : (i # j /\ ctxOf[i] # NoCtx) => ctxOf[i] # ctxOf[j]

\* C23 witness: two bodies run at the same time, each has used its context,
\* and each worker has emitted its own body's call.
C23_Witness ==
    /\ runningOn["A"] = ExecThread("A")
    /\ runningOn["B"] = ExecThread("B")
    /\ Payload(emitted["A"]) = <<[kind |-> "message", val |-> "step1"]>>
    /\ Payload(emitted["B"]) = <<[kind |-> "message", val |-> "step2"]>>

\* C24: from start() until the body has returned or raised, the invocation
\* is not ended: the dialog is not closed and its spinner runs, no terminal
\* event was delivered, no callback was called, and the QThread was neither
\* asked to quit nor finished, nor the worker released.
C24_NoCancellation ==
    \A i \in Inv :
        (starts[i] > 0 /\ outcome[i] = NoOutcome) =>
            /\ ui[i].dialog \in {"hidden", "shown"}
            /\ ui[i].spinner
            /\ Positions(ui[i].delivered, TerminalKinds) = {}
            /\ ui[i].onResult = <<>>
            /\ ui[i].onError = <<>>
            /\ ui[i].quit = 0
            /\ ui[i].deleteLater = 0
            /\ exec[i] # "finished"
            /\ ~workerDeleted[i]

\* C25: worker.deleteLater() is requested only after the terminal event was
\* delivered and, when a callback was given for the outcome, after that
\* callback was called and has returned: a callback never finds the release
\* already requested.
C25_ReleaseAfterCallback ==
    \A i \in Inv :
        /\ \A k \in DOMAIN ui[i].onResult : ui[i].onResult[k].released = 0
        /\ \A k \in DOMAIN ui[i].onError : ui[i].onError[k].released = 0
        /\ ui[i].deleteLater > 0 =>
               /\ Positions(ui[i].delivered, TerminalKinds) # {}
               /\ (outcome[i].kind = "return" /\ callbacks[i].on_result) =>
                      (Len(ui[i].onResult) = 1 /\ ~callbacks[i].raises)
               /\ (outcome[i].kind = "raise" /\ callbacks[i].on_error) =>
                      (Len(ui[i].onError) = 1 /\ ~callbacks[i].raises)

\* C25 witness: on_error was called, found no release requested, returned,
\* and the release was requested then.
C25_Witness ==
    \E i \in Inv :
        /\ Len(ui[i].onError) = 1
        /\ ui[i].onError[1].released = 0
        /\ ui[i].deleteLater = 1

\* C26: every ctx.set_progress(value) of the body is emitted as a progress
\* signal carrying that same value, in or out of [0,1], at the place in the
\* stream where the call was made, and no other progress value is emitted.
C26_ProgressPassedThrough ==
    \A i \in Inv :
        LET sent == StreamOf(emitted[i])
        IN  /\ \A k \in DOMAIN calls[i] :
                   calls[i][k].kind = "progress" =>
                       /\ k \in DOMAIN sent
                       /\ sent[k].kind = "progress"
                       /\ sent[k].val = calls[i][k].val
            /\ \A k \in Positions(sent, {"progress"}) :
                   k \in DOMAIN calls[i] /\ calls[i][k] = sent[k]

\* C26 witness: the body reported 1.5, outside [0,1], and the progress
\* signal was emitted with 1.5 and delivered to the dialog.
C26_Witness ==
    \E i \in Inv :
        /\ [kind |-> "progress", val |-> "1.5"] \in Range(calls[i])
        /\ [kind |-> "progress", val |-> "1.5"] \in Range(emitted[i])
        /\ [kind |-> "progress", val |-> "1.5"] \in Range(Payload(ui[i].delivered))

\* C27: a call set_current_id(id, emit=False) with one of the two option ids
\* emits no selectionChanged signal, whichever button was checked before.
C27_SilentSetEmitsNothing ==
    \A k \in DOMAIN toggle.calls :
        LET call == toggle.calls[k]
        IN  (~call.emit /\ call.id \in {LeftId, RightId}) => call.emitted = <<>>

\* C28: the worker is released on every terminal path: once the terminal
\* event of an invocation has been delivered, worker.deleteLater() has been
\* requested, also when the on_result / on_error callback raised.
C28_ReleasedOnEveryTerminalPath ==
    \A i \in Inv :
        Positions(ui[i].delivered, TerminalKinds) # {} => ui[i].deleteLater = 1

C30_BarVisibleIffProgressDelivered ==
    \A i \in Inv :
        ui[i].dialog # "none" =>
            (ui[i].progressVisible <=> Positions(ui[i].delivered, {"progress"}) # {})

\* C30, the step form: a progress bar that is visible stays visible.
C30_BarNeverHiddenAgain ==
    [][\A i \in Inv : ui[i].progressVisible => ui'[i].progressVisible]_vars

\* C30 witness: a progress event was delivered, then a message and the
\* terminal event, the dialog is closed and the bar still visible.
C30_Witness ==
    \E i \in Inv :
        LET d == ui[i].delivered
        IN  /\ ui[i].progressVisible
            /\ ui[i].dialog = "closed"
            /\ \E p \in Positions(d, {"progress"}), m \in Positions(d, {"message"}),
                  t \in Positions(d, TerminalKinds) : p < m /\ m < t

\* C30 witness of the other case: an invocation ended without any progress
\* event and its bar was never shown.
C30_WitnessNoProgress ==
    \E i \in Inv :
        /\ ui[i].dialog = "closed"
        /\ Positions(ui[i].delivered, {"progress"}) = {}
        /\ Positions(ui[i].delivered, {"message"}) # {}
        /\ ~ui[i].progressVisible

====
